---- MODULE Spec2Model ----
(***************************************************************************)
(* Model of the leaderboard API (Flask handlers over MongoDB collections). *)
(* The state is the content of the collections leaderboards, players and   *)
(* scores; the handlers of controllers/scores_controller.py and            *)
(* controllers/leaderboards_controller.py, the registration and linking of *)
(* players (controllers/players_controller.py) and the cross-app queries   *)
(* of controllers/users_controller.py are actions.  Under SpecConc and     *)
(* SpecLink requests are served by concurrent workers and every database   *)
(* round trip of a handler is a step of its own; under the other           *)
(* specifications one request is served at a time (a handler is one step). *)
(***************************************************************************)
EXTENDS Integers, Sequences, FiniteSets, TLC

VARIABLES leaderboards, players, scores, nextLeaderboard, nextScore, response,
          workers, history

vars == <<leaderboards, players, scores, nextLeaderboard, nextScore, response,
          workers, history>>

db == <<leaderboards, players, scores>>

----------------------------------------------------------------------------
(* Bounds of the model *)

\* number of score documents ever inserted
MaxScores == 3

\* number of leaderboard documents ever inserted
MaxLeaderboards == 2

\* number of concurrent request workers of SpecConc
NumWorkers == 2

\* number of score documents inserted under SpecScenario
ScenarioScores == 4

\* number of score documents inserted under SpecConc
ConcScores == 2

\* number of score documents inserted under SpecLimit
LimitScores == 101

\* number of player documents ever inserted under SpecLink
MaxPlayers == 2

\* number of score documents inserted under SpecIndep
IndepScores == 2

\* number of score documents inserted under SpecJson
JsonScores == 2

(* Program constants *)

\* scores_controller.py:178  limit = min(int(...), 100)
MaxLimit == 100

\* scores_controller.py:279  nearby = min(int(...), 20)
MaxNearby == 20

----------------------------------------------------------------------------
(* The registered apps and players.  Apps and players are never deleted by  *)
(* any handler; the ranking handlers only read them.                        *)

Apps == {"A", "B"}

RegisteredPlayers ==
    { [id |-> "p1", app_id |-> "A", user_id |-> "u1"],
      [id |-> "p2", app_id |-> "A", user_id |-> "none"],
      [id |-> "p3", app_id |-> "A", user_id |-> "none"],
      [id |-> "p4", app_id |-> "A", user_id |-> "none"],
      [id |-> "p5", app_id |-> "B", user_id |-> "u1"] }

PlayerIds == {p.id : p \in RegisteredPlayers}

LeaderboardIds == 1..MaxLeaderboards

SortOrders == {"asc", "desc"}

----------------------------------------------------------------------------
(* Python and pymongo primitives the handlers use *)

Min(a, b) == IF a < b THEN a ELSE b

Max(a, b) == IF a > b THEN a ELSE b

\* seq[start:end] of Python: a negative index counts from the end, and both
\* ends are clamped to the sequence.
PySlice(seq, start, end) ==
    LET n  == Len(seq)
        s0 == IF start < 0 THEN Max(0, start + n) ELSE Min(start, n)
        e0 == IF end < 0 THEN Max(0, end + n) ELSE Min(end, n)
    IN  IF s0 >= e0 THEN <<>> ELSE SubSeq(seq, s0 + 1, e0)

\* cursor.limit(n) of pymongo: 0 is no limit, and a negative n returns |n|
\* documents (in a single batch).
CursorLimit(seq, n) ==
    IF n = 0 THEN seq
    ELSE SubSeq(seq, 1, Min(Len(seq), IF n < 0 THEN -n ELSE n))

\* key a comes strictly before key b under direction dir (-1 descending,
\* 1 ascending)
Before(dir, a, b) == IF dir = -1 THEN a > b ELSE a < b

\* cursor.sort(key, dir): every order of the documents S that is sorted on key;
\* MongoDB leaves the order of documents with equal keys unspecified.
RECURSIVE CursorSort(_, _, _)
CursorSort(S, key, dir) ==
    IF S = {} THEN {<<>>}
    ELSE LET first == {r \in S : \A q \in S : ~Before(dir, q[key], r[key])}
         IN  UNION { { <<r>> \o t : t \in CursorSort(S \ {r}, key, dir) } :
                     r \in first }

\* a mutant of FindLeaderboard: the filter lacks 'app_id'
FindLeaderboardOfAnyApp(id, app) == {l \in leaderboards : l.id = id}

\* a mutant of FindPlayer: the filter lacks 'app_id'
FindPlayerOfAnyApp(id, app) == {p \in players : p.id = id}

\* collection.find_one(filter) on a filter that fixes the unique _id: the
\* matching documents (none or one)
FindLeaderboard(id, app) ==
    {l \in leaderboards : l.id = id /\ l.app_id = app}

FindPlayer(id, app) ==
    {p \in players : p.id = id /\ p.app_id = app}

FindPlayerById(id) == {p \in players : p.id = id}

\* scores_collection.find({'leaderboard_id': leaderboard_id})
ScoresOf(leaderboard_id) ==
    {s \in scores : s.leaderboard_id = leaderboard_id}

\* scores_collection.find({'leaderboard_id': ..., 'player_id': ...})
ScoresOfPlayer(leaderboard_id, player_id) ==
    {s \in scores : s.leaderboard_id = leaderboard_id /\ s.player_id = player_id}

\* a mutant of get_leaderboard_sort_order: the sort_order field is ignored
SortOrderAlwaysDescending(leaderboard_id) == -1

get_leaderboard_sort_order(leaderboard_id) ==
    LET found == {l \in leaderboards : l.id = leaderboard_id}
    IN  IF found # {}
        THEN (IF (CHOOSE l \in found : TRUE).sort_order = "desc" THEN -1 ELSE 1)
        ELSE -1

\* a mutant of CountBetter: $gte / $lte in place of $gt / $lt
CountBetterOrEqual(docs, dir, value) ==
    IF dir = -1
    THEN Cardinality({s \in docs : s.score >= value})
    ELSE Cardinality({s \in docs : s.score <= value})

\* count_documents({'leaderboard_id': ..., 'score': {'$gt' | '$lt': value}}),
\* docs being the documents of the leaderboard
CountBetter(docs, dir, value) ==
    IF dir = -1
    THEN Cardinality({s \in docs : s.score > value})
    ELSE Cardinality({s \in docs : s.score < value})

\* a mutant of DistinctPlayers: the documents are counted, not the players
CountDocuments(docs) == Cardinality(docs)

\* len(scores_collection.distinct('player_id', {'leaderboard_id': ...})),
\* docs being the documents of the leaderboard
DistinctPlayers(docs) == Cardinality({s.player_id : s \in docs})

\* the enrichment loops: enumerate(list) with rank = offset + idx + 1
Enrich(list, offset) ==
    [i \in 1..Len(list) |->
        [rank |-> offset + (i - 1) + 1, score |-> list[i],
         player |-> FindPlayerById(list[i].player_id)]]

\* the loop that finds the first document of player_id: its 0-based index,
\* or -1 for Python's None
PlayerPosition(list, player_id) ==
    LET hits == {i \in 1..Len(list) : list[i].player_id = player_id}
    IN  IF hits = {} THEN -1
        ELSE (CHOOSE i \in hits : \A j \in hits : i <= j) - 1

----------------------------------------------------------------------------
(* Responses.  response holds the request served last and what it returned. *)

NoResponse == [op |-> "none", app |-> "none", status |-> 0]

Reply(op, app, args, status, body) ==
    [op |-> op, app |-> app, args |-> args, status |-> status, body |-> body]

NotFound(op, app, args, what) == Reply(op, app, args, 404, [error |-> what])

\* no request is being served
Idle == response = NoResponse

Init ==
    /\ leaderboards = {}
    /\ players = RegisteredPlayers
    /\ scores = {}
    /\ nextLeaderboard = 1
    /\ nextScore = 1
    /\ response = NoResponse
    /\ workers = [w \in 1..NumWorkers |-> [pc |-> "idle"]]
    /\ history = {[leaderboards |-> {}, scores |-> {}]}

----------------------------------------------------------------------------
(* Handlers, one request at a time: a handler runs from the arrival of its  *)
(* request to its return, and the reply is sent before the next request is *)
(* taken.                                                                  *)

\* the reply of the handler is sent to the client
send_response ==
    /\ ~Idle
    /\ response' = NoResponse
    /\ UNCHANGED <<leaderboards, players, scores, nextLeaderboard, nextScore,
                   workers, history>>

create_leaderboard(app, name, sort_order) ==
    LET args == [name |-> name, sort_order |-> sort_order]
        existing == {l \in leaderboards : l.app_id = app /\ l.name = name}
        item == [id |-> nextLeaderboard, app_id |-> app, name |-> name,
                 sort_order |-> sort_order]
    IN  /\ Idle
        /\ IF sort_order \notin {"asc", "desc"}
           THEN /\ response' = Reply("create_leaderboard", app, args, 400,
                                     [error |-> "sort_order"])
                /\ UNCHANGED <<leaderboards, nextLeaderboard>>
           ELSE IF existing # {}
           THEN /\ response' = Reply("create_leaderboard", app, args, 409,
                                     [error |-> "exists"])
                /\ UNCHANGED <<leaderboards, nextLeaderboard>>
           ELSE /\ leaderboards' = leaderboards \cup {item}
                /\ nextLeaderboard' = nextLeaderboard + 1
                /\ response' = Reply("create_leaderboard", app, args, 201,
                                     [leaderboard |-> item])
        /\ UNCHANGED <<players, scores, nextScore, workers, history>>

get_leaderboards(app) ==
    /\ Idle
    /\ response' = Reply("get_leaderboards", app, [none |-> 0], 200,
                         [leaderboards |-> {l \in leaderboards : l.app_id = app}])
    /\ UNCHANGED <<leaderboards, players, scores, nextLeaderboard, nextScore,
                   workers, history>>

get_leaderboard(app, leaderboard_id) ==
    LET args == [leaderboard_id |-> leaderboard_id]
        leaderboard == FindLeaderboard(leaderboard_id, app)
    IN  /\ Idle
        /\ response' =
              IF leaderboard = {}
              THEN NotFound("get_leaderboard", app, args, "Leaderboard")
              ELSE Reply("get_leaderboard", app, args, 200,
                         [leaderboard |-> CHOOSE l \in leaderboard : TRUE])
        /\ UNCHANGED <<leaderboards, players, scores, nextLeaderboard,
                       nextScore, workers, history>>

\* a mutant of delete_leaderboard: delete_many without the leaderboard_id
\* filter, the scores of every leaderboard are deleted
delete_leaderboard_every_score(app, leaderboard_id) ==
    LET args == [leaderboard_id |-> leaderboard_id]
        leaderboard == FindLeaderboard(leaderboard_id, app)
    IN  /\ Idle
        /\ IF leaderboard = {}
           THEN /\ response' = NotFound("delete_leaderboard", app, args,
                                        "Leaderboard")
                /\ UNCHANGED <<leaderboards, scores>>
           ELSE /\ scores' = {}
                /\ leaderboards' =
                      {l \in leaderboards : l.id # leaderboard_id}
                /\ response' = Reply("delete_leaderboard", app, args, 200,
                                     [message |-> "deleted"])
        /\ UNCHANGED <<players, nextLeaderboard, nextScore, workers, history>>

delete_leaderboard(app, leaderboard_id) ==
    LET args == [leaderboard_id |-> leaderboard_id]
        leaderboard == FindLeaderboard(leaderboard_id, app)
    IN  /\ Idle
        /\ IF leaderboard = {}
           THEN /\ response' = NotFound("delete_leaderboard", app, args,
                                        "Leaderboard")
                /\ UNCHANGED <<leaderboards, scores>>
           ELSE /\ scores' = scores \ ScoresOf(leaderboard_id)
                /\ leaderboards' =
                      {l \in leaderboards : l.id # leaderboard_id}
                /\ response' = Reply("delete_leaderboard", app, args, 200,
                                     [message |-> "deleted"])
        /\ UNCHANGED <<players, nextLeaderboard, nextScore, workers, history>>

\* a mutant of submit_score: the score of the player is upserted, the new
\* record replaces the records the player has on the leaderboard
submit_score_upsert(app, leaderboard_id, player_id, value) ==
    LET args == [leaderboard_id |-> leaderboard_id, player_id |-> player_id,
                 score |-> value]
        score_item == [id |-> nextScore, leaderboard_id |-> leaderboard_id,
                       player_id |-> player_id, score |-> value,
                       created_at |-> nextScore]
    IN  /\ Idle
        /\ IF FindLeaderboard(leaderboard_id, app) = {}
           THEN /\ response' = NotFound("submit_score", app, args, "Leaderboard")
                /\ UNCHANGED <<scores, nextScore>>
           ELSE IF FindPlayer(player_id, app) = {}
           THEN /\ response' = NotFound("submit_score", app, args, "Player")
                /\ UNCHANGED <<scores, nextScore>>
           ELSE /\ scores' = (scores \ ScoresOfPlayer(leaderboard_id, player_id))
                                 \cup {score_item}
                /\ nextScore' = nextScore + 1
                /\ response' = Reply("submit_score", app, args, 201,
                                     [score |-> score_item])
        /\ UNCHANGED <<leaderboards, players, nextLeaderboard, workers, history>>

submit_score(app, leaderboard_id, player_id, value) ==
    LET args == [leaderboard_id |-> leaderboard_id, player_id |-> player_id,
                 score |-> value]
        score_item == [id |-> nextScore, leaderboard_id |-> leaderboard_id,
                       player_id |-> player_id, score |-> value,
                       created_at |-> nextScore]
    IN  /\ Idle
        /\ IF FindLeaderboard(leaderboard_id, app) = {}
           THEN /\ response' = NotFound("submit_score", app, args, "Leaderboard")
                /\ UNCHANGED <<scores, nextScore>>
           ELSE IF FindPlayer(player_id, app) = {}
           THEN /\ response' = NotFound("submit_score", app, args, "Player")
                /\ UNCHANGED <<scores, nextScore>>
           ELSE /\ scores' = scores \cup {score_item}
                /\ nextScore' = nextScore + 1
                /\ response' = Reply("submit_score", app, args, 201,
                                     [score |-> score_item])
        /\ UNCHANGED <<leaderboards, players, nextLeaderboard, workers, history>>

\* lines 191-205 of get_top_scores: the reply built from the documents read
TopScoresReply(app, args, leaderboard, top_scores, total_scores) ==
    Reply("get_top_scores", app, args, 200,
          [leaderboard |-> leaderboard,
           total_scores |-> total_scores,
           scores |-> Enrich(top_scores, 0)])

\* a mutant of TopScoresReplies: total_scores counts the documents returned,
\* not the documents stored
TopScoresRepliesCountingReturned(app, args, leaderboard, limit, sort_direction, docs) ==
    { TopScoresReply(app, args, leaderboard, CursorLimit(sorted, limit),
                     Len(CursorLimit(sorted, limit))) :
        sorted \in CursorSort(docs, "score", sort_direction) }

\* lines 187-205 of get_top_scores: the replies the handler can build when docs
\* are the documents of the leaderboard, one for every order the sort can return
TopScoresReplies(app, args, leaderboard, limit, sort_direction, docs) ==
    { TopScoresReply(app, args, leaderboard, CursorLimit(sorted, limit),
                     Cardinality(docs)) :
        sorted \in CursorSort(docs, "score", sort_direction) }

get_top_scores(app, leaderboard_id, limit_arg) ==
    LET args == [leaderboard_id |-> leaderboard_id, limit |-> limit_arg]
        leaderboard == FindLeaderboard(leaderboard_id, app)
        limit == Min(limit_arg, MaxLimit)
        sort_direction == get_leaderboard_sort_order(leaderboard_id)
    IN  /\ Idle
        /\ IF leaderboard = {}
           THEN response' = NotFound("get_top_scores", app, args, "Leaderboard")
           ELSE response' \in TopScoresReplies(app, args,
                                 CHOOSE l \in leaderboard : TRUE, limit,
                                 sort_direction, ScoresOf(leaderboard_id))
        /\ UNCHANGED <<leaderboards, players, scores, nextLeaderboard,
                       nextScore, workers, history>>

\* lines 284-288 of get_player_rank: list(find(...).sort(...).limit(1)), the
\* lists the query can return (one document, or none) when docs are the
\* documents of the player on the leaderboard
PlayerBestScores(docs, sort_direction) ==
    { CursorLimit(sorted, 1) : sorted \in CursorSort(docs, "score", sort_direction) }

\* a mutant of PlayerRank: the rank is the position of the document in the
\* list sorted on score, ties in insertion order
PlayerRankByPosition(docs, sort_direction, player_best_score) ==
    Cardinality({s \in docs :
        \/ Before(sort_direction, s.score, player_best_score.score)
        \/ s.score = player_best_score.score /\ s.id < player_best_score.id}) + 1

\* lines 295-307 of get_player_rank: better_scores_count + 1, docs being the
\* documents of the leaderboard
PlayerRank(docs, sort_direction, player_best_score) ==
    CountBetter(docs, sort_direction, player_best_score.score) + 1

\* lines 322-335 of get_player_rank: the window around player_position
NearbyWindow(all_scores_sorted, player_position, nearby) ==
    LET start_idx == Max(0, player_position - nearby)
        end_idx == Min(Len(all_scores_sorted), player_position + nearby + 1)
    IN  Enrich(PySlice(all_scores_sorted, start_idx, end_idx), start_idx)

\* lines 293-343 of get_player_rank: the reply built from the documents read.
\* player_position is None when the player has no document in the list, and
\* None - nearby raises TypeError, which Flask answers with status 500.
PlayerRankReply(app, args, player, best_score, rank, total, sorted, nearby) ==
    LET player_position == PlayerPosition(sorted, args.player_id)
    IN  IF player_position = -1
        THEN Reply("get_player_rank", app, args, 500, [error |-> "TypeError"])
        ELSE Reply("get_player_rank", app, args, 200,
                   [player |-> player,
                    best_score |-> best_score,
                    rank |-> rank,
                    total_players |-> total,
                    nearby |-> NearbyWindow(sorted, player_position, nearby)])

\* a mutant of PlayerRankReplies: the test 'if not player_scores' is missing,
\* and player_scores[0] raises IndexError on a player without scores
PlayerRankRepliesUnchecked(app, args, player, nearby, sort_direction, docs) ==
    UNION {
      IF player_scores = <<>>
      THEN {Reply("get_player_rank", app, args, 500, [error |-> "IndexError"])}
      ELSE { PlayerRankReply(app, args, player, player_scores[1],
                             PlayerRank(docs, sort_direction, player_scores[1]),
                             DistinctPlayers(docs), all_scores_sorted, nearby) :
               all_scores_sorted \in CursorSort(docs, "score", sort_direction) } :
      player_scores \in
          PlayerBestScores({s \in docs : s.player_id = args.player_id},
                           sort_direction) }

\* lines 284-343 of get_player_rank once the leaderboard and the player are
\* found: the replies the handler can build when docs are the documents of the
\* leaderboard, one for every pair of orders the two sorts can return
PlayerRankReplies(app, args, player, nearby, sort_direction, docs) ==
    UNION {
      IF player_scores = <<>>
      THEN {NotFound("get_player_rank", app, args, "Score")}
      ELSE { PlayerRankReply(app, args, player, player_scores[1],
                             PlayerRank(docs, sort_direction, player_scores[1]),
                             DistinctPlayers(docs), all_scores_sorted, nearby) :
               all_scores_sorted \in CursorSort(docs, "score", sort_direction) } :
      player_scores \in
          PlayerBestScores({s \in docs : s.player_id = args.player_id},
                           sort_direction) }

get_player_rank(app, leaderboard_id, player_id, nearby_arg) ==
    LET args == [leaderboard_id |-> leaderboard_id, player_id |-> player_id,
                 nearby |-> nearby_arg]
        nearby == Min(nearby_arg, MaxNearby)
        sort_direction == get_leaderboard_sort_order(leaderboard_id)
    IN  /\ Idle
        /\ IF FindLeaderboard(leaderboard_id, app) = {}
           THEN response' = NotFound("get_player_rank", app, args, "Leaderboard")
           ELSE IF FindPlayer(player_id, app) = {}
           THEN response' = NotFound("get_player_rank", app, args, "Player")
           ELSE response' \in PlayerRankReplies(app, args,
                                 CHOOSE p \in FindPlayer(player_id, app) : TRUE,
                                 nearby, sort_direction,
                                 ScoresOf(leaderboard_id))
        /\ UNCHANGED <<leaderboards, players, scores, nextLeaderboard,
                       nextScore, workers, history>>

\* a mutant of PlayerScoresReplies: the scores are sorted oldest first
PlayerScoresRepliesOldestFirst(app, args, player) ==
    LET app_leaderboards == {l \in leaderboards : l.app_id = app}
        mine == {s \in scores :
                    /\ s.player_id = args.player_id
                    /\ s.leaderboard_id \in {l.id : l \in app_leaderboards}}
    IN  { Reply("get_player_scores", app, args, 200,
                [player |-> player,
                 scores |-> [i \in 1..Len(player_scores) |->
                     [score |-> player_scores[i],
                      leaderboard |->
                         {l \in app_leaderboards :
                             l.id = player_scores[i].leaderboard_id}]]]) :
            player_scores \in CursorSort(mine, "created_at", 1) }

\* lines 396-421 of get_player_scores: the replies the handler can build
PlayerScoresReplies(app, args, player) ==
    LET app_leaderboards == {l \in leaderboards : l.app_id = app}
        mine == {s \in scores :
                    /\ s.player_id = args.player_id
                    /\ s.leaderboard_id \in {l.id : l \in app_leaderboards}}
    IN  { Reply("get_player_scores", app, args, 200,
                [player |-> player,
                 scores |-> [i \in 1..Len(player_scores) |->
                     [score |-> player_scores[i],
                      leaderboard |->
                         {l \in app_leaderboards :
                             l.id = player_scores[i].leaderboard_id}]]]) :
            player_scores \in CursorSort(mine, "created_at", -1) }

get_player_scores(app, player_id) ==
    LET args == [player_id |-> player_id]
    IN  /\ Idle
        /\ IF FindPlayer(player_id, app) = {}
           THEN response' = NotFound("get_player_scores", app, args, "Player")
           ELSE response' \in PlayerScoresReplies(app, args,
                                 CHOOSE p \in FindPlayer(player_id, app) : TRUE)
        /\ UNCHANGED <<leaderboards, players, scores, nextLeaderboard,
                       nextScore, workers, history>>

----------------------------------------------------------------------------
(* Spec: two tenants, one request at a time *)

Names == {"daily"}

Values == {1, 2}

SpecPlayers == {"p1", "p5"}

Next ==
    \/ /\ nextLeaderboard <= MaxLeaderboards
       /\ \E app \in Apps, name \in Names, sort_order \in SortOrders :
             create_leaderboard(app, name, sort_order)
    \/ \E app \in Apps : get_leaderboards(app)
    \/ \E app \in Apps, id \in LeaderboardIds : get_leaderboard(app, id)
    \/ \E app \in Apps, id \in LeaderboardIds : delete_leaderboard(app, id)
    \/ /\ nextScore <= MaxScores
       /\ \E app \in Apps, id \in LeaderboardIds, p \in SpecPlayers,
             v \in Values : submit_score(app, id, p, v)
    \/ \E app \in Apps, id \in LeaderboardIds : get_top_scores(app, id, 2)
    \/ \E app \in Apps, id \in LeaderboardIds, p \in SpecPlayers :
          get_player_rank(app, id, p, 1)
    \/ \E app \in Apps, p \in SpecPlayers : get_player_scores(app, p)
    \/ send_response

Spec == Init /\ [][Next]_vars

----------------------------------------------------------------------------
(* SpecRank: the ranking queries of one tenant, one request at a time *)

RankValues == {1, 2, 3}

RankPlayers == {"p1", "p2", "p3"}

RankNearby == {-1, 0, 1}

RankLimits == {0, 2}

NextRank ==
    \/ /\ nextLeaderboard <= MaxLeaderboards
       /\ \E sort_order \in SortOrders :
             create_leaderboard("A", "daily", sort_order)
    \/ /\ nextScore <= MaxScores
       /\ \E p \in RankPlayers, v \in RankValues : submit_score("A", 1, p, v)
    \/ \E limit \in RankLimits : get_top_scores("A", 1, limit)
    \/ \E p \in RankPlayers, nearby \in RankNearby :
          get_player_rank("A", 1, p, nearby)
    \/ send_response

SpecRank == Init /\ [][NextRank]_vars

----------------------------------------------------------------------------
(* SpecScenario: the submissions of the scenario of section 8 of the       *)
(* specification: values 100, 90, 100, 80 for players p1, p2, p3, p4       *)

ScenarioSubmits ==
    {<<"p1", 100>>, <<"p2", 90>>, <<"p3", 100>>, <<"p4", 80>>}

ScenarioPlayers == {"p1", "p2", "p3", "p4"}

ScenarioNearby == {-2, 1}

NextScenario ==
    \/ /\ nextLeaderboard <= MaxLeaderboards
       /\ \E sort_order \in SortOrders :
             create_leaderboard("A", "daily", sort_order)
    \/ /\ nextScore <= ScenarioScores
       /\ \E s \in ScenarioSubmits : submit_score("A", 1, s[1], s[2])
    \/ get_top_scores("A", 1, 4)
    \/ \E p \in ScenarioPlayers, nearby \in ScenarioNearby :
          get_player_rank("A", 1, p, nearby)
    \/ send_response

SpecScenario == Init /\ [][NextScenario]_vars

----------------------------------------------------------------------------
(* SpecHistory: two tenants, each with up to two leaderboards of different  *)
(* names, and the history of a player across them, one request at a time    *)

HistoryNames == {"daily", "weekly"}

HistoryPlayers == {"p1", "p5"}

NextHistory ==
    \/ /\ nextLeaderboard <= MaxLeaderboards
       /\ \E app \in Apps, name \in HistoryNames :
             create_leaderboard(app, name, "desc")
    \/ \E app \in Apps, id \in LeaderboardIds : delete_leaderboard(app, id)
    \/ /\ nextScore <= MaxScores
       /\ \E app \in Apps, id \in LeaderboardIds, p \in HistoryPlayers :
             submit_score(app, id, p, 1)
    \/ \E app \in Apps, p \in HistoryPlayers : get_player_scores(app, p)
    \/ send_response

SpecHistory == Init /\ [][NextHistory]_vars

----------------------------------------------------------------------------
(* SpecIndep: one tenant with several leaderboards of either sort order,    *)
(* one request at a time                                                    *)

IndepPlayers == {"p1", "p2"}

\* the leaderboards the tenant creates: name and sort order
IndepBoards == {<<"daily", "desc">>, <<"weekly", "asc">>}

NextIndep ==
    \/ /\ nextLeaderboard <= MaxLeaderboards
       /\ \E b \in IndepBoards : create_leaderboard("A", b[1], b[2])
    \/ \E id \in LeaderboardIds : delete_leaderboard("A", id)
    \/ /\ nextScore <= IndepScores
       /\ \E id \in LeaderboardIds, p \in IndepPlayers, v \in Values :
             submit_score("A", id, p, v)
    \/ send_response

SpecIndep == Init /\ [][NextIndep]_vars

----------------------------------------------------------------------------
(* The request bodies.  data is the JSON object of the request: a function  *)
(* from the keys the client sent to their values.  The handlers above start *)
(* where the fields of the body are read; the validation before that point  *)
(* is modelled here.                                                        *)

\* the keys line 82 of submit_score requires
ScoreKeys == {"leaderboard_id", "player_id", "score"}

\* a mutant of submit_score_body: a body without 'score' is accepted, the
\* score stored is 0
submit_score_body_default_score(app, data) ==
    IF {"leaderboard_id", "player_id"} \subseteq DOMAIN data
    THEN submit_score(app, data.leaderboard_id, data.player_id,
                      IF "score" \in DOMAIN data THEN data.score ELSE 0)
    ELSE /\ Idle
         /\ response' = Reply("submit_score", app, data, 400,
                              [error |-> "required"])
         /\ UNCHANGED <<leaderboards, players, scores, nextLeaderboard,
                        nextScore, workers, history>>

\* lines 74-118 of submit_score: POST /scores with body data
submit_score_body(app, data) ==
    IF ScoreKeys \subseteq DOMAIN data
    THEN submit_score(app, data.leaderboard_id, data.player_id, data.score)
    ELSE /\ Idle
         /\ response' = Reply("submit_score", app, data, 400,
                              [error |-> "required"])
         /\ UNCHANGED <<leaderboards, players, scores, nextLeaderboard,
                        nextScore, workers, history>>

\* lines 56-93 of create_leaderboard: POST /leaderboards with body data
create_leaderboard_body(app, data) ==
    IF "name" \in DOMAIN data
    THEN create_leaderboard(app, data.name,
                            IF "sort_order" \in DOMAIN data
                            THEN data.sort_order ELSE "desc")
    ELSE /\ Idle
         /\ response' = Reply("create_leaderboard", app, data, 400,
                              [error |-> "name"])
         /\ UNCHANGED <<leaderboards, players, scores, nextLeaderboard,
                        nextScore, workers, history>>

\* the body f without the keys outside K
Restrict(f, K) == [k \in K |-> f[k]]

(* SpecInput: one tenant whose requests carry every subset of the fields    *)

InputScoreBodies ==
    { Restrict(f, K) :
        f \in [leaderboard_id : {1}, player_id : {"p1", "p2"}, score : Values],
        K \in SUBSET ScoreKeys }

InputLeaderboardBodies ==
    { Restrict(f, K) :
        f \in [name : {"daily"}, sort_order : {"asc", "desc", "random"}],
        K \in SUBSET {"name", "sort_order"} }

NextInput ==
    \/ /\ nextLeaderboard <= MaxLeaderboards
       /\ \E data \in InputLeaderboardBodies :
             create_leaderboard_body("A", data)
    \/ \E id \in LeaderboardIds : delete_leaderboard("A", id)
    \/ /\ nextScore <= MaxScores
       /\ \E data \in InputScoreBodies : submit_score_body("A", data)
    \/ send_response

SpecInput == Init /\ [][NextInput]_vars

(* SpecJson: one tenant whose POST /scores bodies carry a score of every     *)
(* JSON type.  A JSON value is modelled by its type and its literal text.   *)

JsonValues ==
    { [type |-> "integer", text |-> "1"], [type |-> "integer", text |-> "2"],
      [type |-> "string", text |-> "abc"], [type |-> "null", text |-> "null"],
      [type |-> "object", text |-> "{}"] }

JsonScoreBodies ==
    [leaderboard_id : {1}, player_id : {"p1", "p2"}, score : JsonValues]

NextJson ==
    \/ /\ nextLeaderboard <= MaxLeaderboards
       /\ create_leaderboard_body("A", [name |-> "daily"])
    \/ \E id \in LeaderboardIds : delete_leaderboard("A", id)
    \/ /\ nextScore <= JsonScores
       /\ \E data \in JsonScoreBodies : submit_score_body("A", data)
    \/ send_response

SpecJson == Init /\ [][NextJson]_vars

----------------------------------------------------------------------------
(* The cross-app query of controllers/users_controller.py.  The users and   *)
(* apps collections are not written by any handler modelled here: the users *)
(* are RegisteredUsers, and the app of every player exists.  The lists      *)
(* games and best_scores come in the order find returns the documents,      *)
(* which MongoDB leaves unspecified; they are modelled by the sets of their *)
(* entries.                                                                 *)

RegisteredUsers == {"u1", "u2"}

\* a mutant of UserBestScores: the sort is descending whatever the
\* sort_order of the leaderboard
UserBestScoresAlwaysDescending(lb, player_id) ==
    PlayerBestScores(ScoresOfPlayer(lb.id, player_id), -1)

\* lines 376-380 of get_user_games: find_one on the scores of the player on
\* leaderboard lb, sorted on score: the lists of the document found (one
\* document, or none)
UserBestScores(lb, player_id) ==
    PlayerBestScores(ScoresOfPlayer(lb.id, player_id),
                     IF lb.sort_order = "desc" THEN -1 ELSE 1)

\* lines 374-389 of get_user_games: the best_scores a game can carry, one for
\* every choice find_one can make among the tied best records
UserGameBestScores(player) ==
    LET lbs == {lb \in leaderboards : lb.app_id = player.app_id}
        played == {lb \in lbs : ScoresOfPlayer(lb.id, player.id) # {}}
        picks == {f \in [played -> scores] :
                     \A lb \in played : <<f[lb]>> \in UserBestScores(lb, player.id)}
    IN  { { [leaderboard |-> [id |-> lb.id, name |-> lb.name],
             score |-> f[lb].score,
             created_at |-> f[lb].created_at] : lb \in played } : f \in picks }

\* lines 350-418 of get_user_games once the user is found: the replies the
\* handler can build
UserGamesReplies(user_id) ==
    LET linked == {p \in players : p.user_id = user_id}
        choices == {g \in [linked -> UNION {UserGameBestScores(p) : p \in linked}] :
                       \A p \in linked : g[p] \in UserGameBestScores(p)}
    IN  { Reply("get_user_games", "user", [user_id |-> user_id], 200,
                [games |-> { [app |-> p.app_id,
                              player |-> p.id,
                              total_scores |->
                                 Cardinality({s \in scores : s.player_id = p.id}),
                              best_scores |-> g[p]] : p \in linked },
                 total_games |-> Cardinality(linked)]) : g \in choices }

get_user_games(user_id) ==
    /\ Idle
    /\ IF user_id \notin RegisteredUsers
       THEN response' = NotFound("get_user_games", "user",
                                 [user_id |-> user_id], "User")
       ELSE response' \in UserGamesReplies(user_id)
    /\ UNCHANGED <<leaderboards, players, scores, nextLeaderboard, nextScore,
                   workers, history>>

(* SpecGames: two tenants and a user who plays the games of both, one       *)
(* request at a time                                                        *)

GamesUsers == {"u1", "u2", "u3"}

GamesPlayers == {"p1", "p5"}

NextGames ==
    \/ /\ nextLeaderboard <= MaxLeaderboards
       /\ \E app \in Apps, sort_order \in SortOrders :
             create_leaderboard(app, "daily", sort_order)
    \/ \E app \in Apps, id \in LeaderboardIds : delete_leaderboard(app, id)
    \/ /\ nextScore <= MaxScores
       /\ \E app \in Apps, id \in LeaderboardIds, p \in GamesPlayers,
             v \in Values : submit_score(app, id, p, v)
    \/ \E u \in GamesUsers : get_user_games(u)
    \/ send_response

SpecGames == Init /\ [][NextGames]_vars

----------------------------------------------------------------------------
(* SpecLimit: a leaderboard that grows beyond the caps of the ranking       *)
(* queries.  Player p1 submits the values 1, 2, 3, ... to a descending      *)
(* leaderboard, one request at a time, and the ranking queries are made     *)
(* with limits and nearby values in and out of range.                       *)

LimitLimits == {-101, 0, 100, 150}

LimitNearby == {25}

NextLimit ==
    \/ /\ nextLeaderboard = 1
       /\ create_leaderboard("A", "daily", "desc")
    \/ /\ nextScore <= LimitScores
       /\ submit_score("A", 1, "p1", nextScore)
    \/ \E limit \in LimitLimits : get_top_scores("A", 1, limit)
    \/ \E nearby \in LimitNearby : get_player_rank("A", 1, "p1", nearby)
    \/ send_response

SpecLimit == Init /\ [][NextLimit]_vars

----------------------------------------------------------------------------
(* Concurrent requests.  The handlers take no lock and open no transaction: *)
(* every pymongo call is one round trip to the database, atomic on its own, *)
(* and the calls of requests served at the same time interleave.  A worker  *)
(* serves one request at a time: pc names the round trip its handler makes  *)
(* next, loc holds the handler's local variables.  No handler of SpecConc   *)
(* writes the players collection, so a read of it is part of the step of    *)
(* the round trip before it.  began and history are history variables:      *)
(* began is what was stored when the handler made its first round trip,     *)
(* history is every content the leaderboards and scores collections had.    *)

Workers == 1..NumWorkers

\* the ids of the leaderboards that were created and are deleted
Deleted ==
    {id \in 1..(nextLeaderboard - 1) : \A l \in leaderboards : l.id # id}

\* the handler of worker w goes on to round trip pc with locals loc
Goto(w, req, pc, loc) ==
    workers' = [workers EXCEPT ![w] =
        [pc |-> pc, op |-> req.op, app |-> req.app, args |-> req.args,
         loc |-> loc,
         began |-> IF workers[w].pc = "idle"
                   THEN [scores |-> scores, deleted |-> Deleted]
                   ELSE workers[w].began]]

\* the handler of worker w returns reply
Return(w, reply) ==
    workers' = [workers EXCEPT ![w] =
        [pc |-> "done", reply |-> reply,
         began |-> IF workers[w].pc = "idle"
                   THEN [scores |-> scores, deleted |-> Deleted]
                   ELSE workers[w].began]]

\* the request worker w is serving
Request(w) ==
    [op |-> workers[w].op, app |-> workers[w].app, args |-> workers[w].args]

\* the collections after a write
Written == history' = history \cup
               {[leaderboards |-> leaderboards', scores |-> scores']}

\* the number of requests of handler op being served
InFlight(op) ==
    Cardinality({w \in Workers :
        workers[w].pc \notin {"idle", "done"} /\ workers[w].op = op})

\* the reply of worker w is sent and the worker takes the next request
worker_send_response(w) ==
    /\ workers[w].pc = "done"
    /\ workers' = [workers EXCEPT ![w] = [pc |-> "idle"]]
    /\ UNCHANGED <<leaderboards, players, scores, nextLeaderboard, nextScore,
                   response, history>>

\* lines 66-78 of create_leaderboard: find_one on app_id and name
create_leaderboard_find(w, app, name, sort_order) ==
    LET req == [op |-> "create_leaderboard", app |-> app,
                args |-> [name |-> name, sort_order |-> sort_order]]
        existing == {l \in leaderboards : l.app_id = app /\ l.name = name}
    IN  /\ workers[w].pc = "idle"
        /\ IF sort_order \notin {"asc", "desc"}
           THEN Return(w, Reply(req.op, app, req.args, 400,
                                [error |-> "sort_order"]))
           ELSE IF existing # {}
           THEN Return(w, Reply(req.op, app, req.args, 409,
                                [error |-> "exists"]))
           ELSE Goto(w, req, "create_leaderboard:insert_one", [none |-> 0])
        /\ UNCHANGED <<leaderboards, players, scores, nextLeaderboard,
                       nextScore, response, history>>

\* lines 80-93 of create_leaderboard: insert_one
create_leaderboard_insert(w) ==
    LET req == Request(w)
        item == [id |-> nextLeaderboard, app_id |-> req.app,
                 name |-> req.args.name, sort_order |-> req.args.sort_order]
    IN  /\ workers[w].pc = "create_leaderboard:insert_one"
        /\ leaderboards' = leaderboards \cup {item}
        /\ nextLeaderboard' = nextLeaderboard + 1
        /\ Return(w, Reply(req.op, req.app, req.args, 201,
                           [leaderboard |-> item]))
        /\ UNCHANGED <<players, scores, nextScore, response>>
        /\ Written

\* lines 230-237 of delete_leaderboard: find_one on _id and app_id
delete_leaderboard_find(w, app, leaderboard_id) ==
    LET req == [op |-> "delete_leaderboard", app |-> app,
                args |-> [leaderboard_id |-> leaderboard_id]]
    IN  /\ workers[w].pc = "idle"
        /\ IF FindLeaderboard(leaderboard_id, app) = {}
           THEN Return(w, NotFound(req.op, app, req.args, "Leaderboard"))
           ELSE Goto(w, req, "delete_leaderboard:delete_many", [none |-> 0])
        /\ UNCHANGED <<leaderboards, players, scores, nextLeaderboard,
                       nextScore, response, history>>

\* lines 240-241 of delete_leaderboard: delete_many on the scores
delete_leaderboard_delete_many(w) ==
    LET req == Request(w)
    IN  /\ workers[w].pc = "delete_leaderboard:delete_many"
        /\ scores' = scores \ ScoresOf(req.args.leaderboard_id)
        /\ Goto(w, req, "delete_leaderboard:delete_one", [none |-> 0])
        /\ UNCHANGED <<leaderboards, players, nextLeaderboard, nextScore,
                       response>>
        /\ Written

\* lines 244-246 of delete_leaderboard: delete_one on the leaderboard
delete_leaderboard_delete_one(w) ==
    LET req == Request(w)
    IN  /\ workers[w].pc = "delete_leaderboard:delete_one"
        /\ leaderboards' =
              {l \in leaderboards : l.id # req.args.leaderboard_id}
        /\ Return(w, Reply(req.op, req.app, req.args, 200,
                           [message |-> "deleted"]))
        /\ UNCHANGED <<players, scores, nextLeaderboard, nextScore, response>>
        /\ Written

\* lines 86-101 of submit_score: find_one on the leaderboard, then on the
\* player
submit_score_find(w, app, leaderboard_id, player_id, value) ==
    LET req == [op |-> "submit_score", app |-> app,
                args |-> [leaderboard_id |-> leaderboard_id,
                          player_id |-> player_id, score |-> value]]
    IN  /\ workers[w].pc = "idle"
        /\ IF FindLeaderboard(leaderboard_id, app) = {}
           THEN Return(w, NotFound(req.op, app, req.args, "Leaderboard"))
           ELSE IF FindPlayer(player_id, app) = {}
           THEN Return(w, NotFound(req.op, app, req.args, "Player"))
           ELSE Goto(w, req, "submit_score:insert_one", [none |-> 0])
        /\ UNCHANGED <<leaderboards, players, scores, nextLeaderboard,
                       nextScore, response, history>>

\* lines 103-118 of submit_score: insert_one
submit_score_insert(w) ==
    LET req == Request(w)
        score_item == [id |-> nextScore,
                       leaderboard_id |-> req.args.leaderboard_id,
                       player_id |-> req.args.player_id,
                       score |-> req.args.score, created_at |-> nextScore]
    IN  /\ workers[w].pc = "submit_score:insert_one"
        /\ scores' = scores \cup {score_item}
        /\ nextScore' = nextScore + 1
        /\ Return(w, Reply(req.op, req.app, req.args, 201,
                           [score |-> score_item]))
        /\ UNCHANGED <<leaderboards, players, nextLeaderboard, response>>
        /\ Written

\* lines 169-178 of get_top_scores: find_one on the leaderboard
get_top_scores_find(w, app, leaderboard_id, limit_arg) ==
    LET req == [op |-> "get_top_scores", app |-> app,
                args |-> [leaderboard_id |-> leaderboard_id,
                          limit |-> limit_arg]]
        leaderboard == FindLeaderboard(leaderboard_id, app)
    IN  /\ workers[w].pc = "idle"
        /\ IF leaderboard = {}
           THEN Return(w, NotFound(req.op, app, req.args, "Leaderboard"))
           ELSE Goto(w, req, "get_top_scores:sort_order",
                     [leaderboard |-> CHOOSE l \in leaderboard : TRUE])
        /\ UNCHANGED <<leaderboards, players, scores, nextLeaderboard,
                       nextScore, response, history>>

\* line 181 of get_top_scores: the find_one of get_leaderboard_sort_order
get_top_scores_sort_order(w) ==
    LET req == Request(w)
        loc == workers[w].loc
    IN  /\ workers[w].pc = "get_top_scores:sort_order"
        /\ Goto(w, req, "get_top_scores:find",
                [leaderboard |-> loc.leaderboard,
                 sort_direction |->
                    get_leaderboard_sort_order(req.args.leaderboard_id)])
        /\ UNCHANGED <<leaderboards, players, scores, nextLeaderboard,
                       nextScore, response, history>>

\* lines 187-189 of get_top_scores: find, sort and limit on the scores
get_top_scores_scores(w) ==
    LET req == Request(w)
        loc == workers[w].loc
        limit == Min(req.args.limit, MaxLimit)
    IN  /\ workers[w].pc = "get_top_scores:find"
        /\ \E sorted \in CursorSort(ScoresOf(req.args.leaderboard_id), "score",
                                    loc.sort_direction) :
              Goto(w, req, "get_top_scores:count_documents",
                   [leaderboard |-> loc.leaderboard,
                    top_scores |-> CursorLimit(sorted, limit)])
        /\ UNCHANGED <<leaderboards, players, scores, nextLeaderboard,
                       nextScore, response, history>>

\* lines 201-205 of get_top_scores: count_documents on the scores
get_top_scores_count(w) ==
    LET req == Request(w)
        loc == workers[w].loc
    IN  /\ workers[w].pc = "get_top_scores:count_documents"
        /\ Return(w, TopScoresReply(req.app, req.args, loc.leaderboard,
                      loc.top_scores,
                      Cardinality(ScoresOf(req.args.leaderboard_id))))
        /\ UNCHANGED <<leaderboards, players, scores, nextLeaderboard,
                       nextScore, response, history>>

\* lines 261-279 of get_player_rank: find_one on the leaderboard, then on the
\* player
get_player_rank_find(w, app, leaderboard_id, player_id, nearby_arg) ==
    LET req == [op |-> "get_player_rank", app |-> app,
                args |-> [leaderboard_id |-> leaderboard_id,
                          player_id |-> player_id, nearby |-> nearby_arg]]
        player == FindPlayer(player_id, app)
    IN  /\ workers[w].pc = "idle"
        /\ IF FindLeaderboard(leaderboard_id, app) = {}
           THEN Return(w, NotFound(req.op, app, req.args, "Leaderboard"))
           ELSE IF player = {}
           THEN Return(w, NotFound(req.op, app, req.args, "Player"))
           ELSE Goto(w, req, "get_player_rank:sort_order",
                     [player |-> CHOOSE p \in player : TRUE])
        /\ UNCHANGED <<leaderboards, players, scores, nextLeaderboard,
                       nextScore, response, history>>

\* line 282 of get_player_rank: the find_one of get_leaderboard_sort_order
get_player_rank_sort_order(w) ==
    LET req == Request(w)
        loc == workers[w].loc
    IN  /\ workers[w].pc = "get_player_rank:sort_order"
        /\ Goto(w, req, "get_player_rank:find_best",
                [player |-> loc.player,
                 sort_direction |->
                    get_leaderboard_sort_order(req.args.leaderboard_id)])
        /\ UNCHANGED <<leaderboards, players, scores, nextLeaderboard,
                       nextScore, response, history>>

\* lines 284-293 of get_player_rank: find, sort and limit(1) on the scores of
\* the player
get_player_rank_best(w) ==
    LET req == Request(w)
        loc == workers[w].loc
        mine == ScoresOfPlayer(req.args.leaderboard_id, req.args.player_id)
    IN  /\ workers[w].pc = "get_player_rank:find_best"
        /\ \E player_scores \in PlayerBestScores(mine, loc.sort_direction) :
              IF player_scores = <<>>
              THEN Return(w, NotFound(req.op, req.app, req.args, "Score"))
              ELSE Goto(w, req, "get_player_rank:count_documents",
                        [player |-> loc.player,
                         sort_direction |-> loc.sort_direction,
                         player_best_score |-> player_scores[1]])
        /\ UNCHANGED <<leaderboards, players, scores, nextLeaderboard,
                       nextScore, response, history>>

\* lines 295-307 of get_player_rank: count_documents on the better scores
get_player_rank_count(w) ==
    LET req == Request(w)
        loc == workers[w].loc
    IN  /\ workers[w].pc = "get_player_rank:count_documents"
        /\ Goto(w, req, "get_player_rank:distinct",
                [player |-> loc.player,
                 sort_direction |-> loc.sort_direction,
                 player_best_score |-> loc.player_best_score,
                 player_rank |-> PlayerRank(ScoresOf(req.args.leaderboard_id),
                                    loc.sort_direction, loc.player_best_score)])
        /\ UNCHANGED <<leaderboards, players, scores, nextLeaderboard,
                       nextScore, response, history>>

\* line 308 of get_player_rank: distinct on the player ids
get_player_rank_distinct(w) ==
    LET req == Request(w)
        loc == workers[w].loc
    IN  /\ workers[w].pc = "get_player_rank:distinct"
        /\ Goto(w, req, "get_player_rank:find_all",
                [player |-> loc.player,
                 sort_direction |-> loc.sort_direction,
                 player_best_score |-> loc.player_best_score,
                 player_rank |-> loc.player_rank,
                 total_players |->
                    DistinctPlayers(ScoresOf(req.args.leaderboard_id))])
        /\ UNCHANGED <<leaderboards, players, scores, nextLeaderboard,
                       nextScore, response, history>>

\* lines 311-343 of get_player_rank: find and sort on all the scores
get_player_rank_all(w) ==
    LET req == Request(w)
        loc == workers[w].loc
        nearby == Min(req.args.nearby, MaxNearby)
    IN  /\ workers[w].pc = "get_player_rank:find_all"
        /\ \E all_scores_sorted \in
                 CursorSort(ScoresOf(req.args.leaderboard_id), "score",
                            loc.sort_direction) :
              Return(w, PlayerRankReply(req.app, req.args, loc.player,
                            loc.player_best_score, loc.player_rank,
                            loc.total_players, all_scores_sorted, nearby))
        /\ UNCHANGED <<leaderboards, players, scores, nextLeaderboard,
                       nextScore, response, history>>

\* lines 456-533 of get_user_scores: the reply built from the documents read
UserScoresReply(args, scores_read, leaderboards_read, total_scores) ==
    Reply("get_user_scores", "user", args, 200,
          [total_scores |-> total_scores,
           scores |-> [i \in 1..Len(scores_read) |->
               [score |-> [id |-> scores_read[i].id,
                           score |-> scores_read[i].score,
                           created_at |-> scores_read[i].created_at],
                player |-> scores_read[i].player_id,
                leaderboard |-> leaderboards_read[i]]]])

\* lines 462-487 of get_user_scores: find on the players linked to the user,
\* then find, sort and limit on their scores
get_user_scores_find(w, user_id, limit_arg) ==
    LET req == [op |-> "get_user_scores", app |-> "user",
                args |-> [user_id |-> user_id, limit |-> limit_arg]]
        limit == Min(Max(limit_arg, 1), MaxLimit)
        player_ids == {p.id : p \in {q \in players : q.user_id = user_id}}
        mine == {s \in scores : s.player_id \in player_ids}
    IN  /\ workers[w].pc = "idle"
        /\ IF player_ids = {}
           THEN Return(w, UserScoresReply(req.args, <<>>, <<>>, 0))
           ELSE \E sorted \in CursorSort(mine, "created_at", -1) :
                   Goto(w, req, "get_user_scores:count_documents",
                        [player_ids |-> player_ids,
                         scores |-> CursorLimit(sorted, limit)])
        /\ UNCHANGED <<leaderboards, players, scores, nextLeaderboard,
                       nextScore, response, history>>

\* line 489 of get_user_scores: count_documents on the scores of the players
get_user_scores_count(w) ==
    LET req == Request(w)
        loc == workers[w].loc
        total == Cardinality({s \in scores : s.player_id \in loc.player_ids})
    IN  /\ workers[w].pc = "get_user_scores:count_documents"
        /\ IF loc.scores = <<>>
           THEN Return(w, UserScoresReply(req.args, <<>>, <<>>, total))
           ELSE Goto(w, req, "get_user_scores:find_one",
                     [scores |-> loc.scores, total_scores |-> total,
                      leaderboards |-> <<>>])
        /\ UNCHANGED <<leaderboards, players, scores, nextLeaderboard,
                       nextScore, response, history>>

\* lines 493-520 of get_user_scores: one turn of the loop, the find_one on the
\* leaderboard of the next score (the documents found: none or one)
get_user_scores_leaderboard(w) ==
    LET req == Request(w)
        loc == workers[w].loc
        score == loc.scores[Len(loc.leaderboards) + 1]
        found == Append(loc.leaderboards,
                     {l \in leaderboards : l.id = score.leaderboard_id})
    IN  /\ workers[w].pc = "get_user_scores:find_one"
        /\ IF Len(found) = Len(loc.scores)
           THEN Return(w, UserScoresReply(req.args, loc.scores, found,
                                          loc.total_scores))
           ELSE Goto(w, req, "get_user_scores:find_one",
                     [scores |-> loc.scores,
                      total_scores |-> loc.total_scores,
                      leaderboards |-> found])
        /\ UNCHANGED <<leaderboards, players, scores, nextLeaderboard,
                       nextScore, response, history>>

----------------------------------------------------------------------------
(* SpecConc: the requests of one tenant on one leaderboard, served by       *)
(* NumWorkers workers at the same time                                      *)

ConcPlayers == {"p1", "p2"}

ConcValues == {1, 2}

NextConc ==
    \E w \in Workers :
        \/ /\ nextLeaderboard + InFlight("create_leaderboard") <= MaxLeaderboards
           /\ create_leaderboard_find(w, "A", "daily", "desc")
        \/ create_leaderboard_insert(w)
        \/ delete_leaderboard_find(w, "A", 1)
        \/ delete_leaderboard_delete_many(w)
        \/ delete_leaderboard_delete_one(w)
        \/ /\ nextScore + InFlight("submit_score") <= ConcScores
           /\ \E p \in ConcPlayers, v \in ConcValues :
                 submit_score_find(w, "A", 1, p, v)
        \/ submit_score_insert(w)
        \/ get_top_scores_find(w, "A", 1, 2)
        \/ get_top_scores_sort_order(w)
        \/ get_top_scores_scores(w)
        \/ get_top_scores_count(w)
        \/ get_player_rank_find(w, "A", 1, "p1", 1)
        \/ get_player_rank_sort_order(w)
        \/ get_player_rank_best(w)
        \/ get_player_rank_count(w)
        \/ get_player_rank_distinct(w)
        \/ get_player_rank_all(w)
        \/ get_user_scores_find(w, "u1", 50)
        \/ get_user_scores_count(w)
        \/ get_user_scores_leaderboard(w)
        \/ worker_send_response(w)

SpecConc == Init /\ [][NextConc]_vars

----------------------------------------------------------------------------
(* Registration and linking of players, controllers/players_controller.py.  *)
(* A player document is [id, app_id, device_id, user_id]; user_id "none" is *)
(* Python's None, and a device_id "none" is a body without device_id.  Only *)
(* SpecLink takes these steps: there the players collection starts empty  *)
(* and is written by the requests of concurrent workers.                    *)

\* the ids uuid.uuid4() draws: an id no stored player has
NewPlayerId == Cardinality(players) + 1

\* lines 63-84 of register_player: the validation of the body, then find_one
\* on app_id and device_id
register_player_find(w, app, device_id) ==
    LET req == [op |-> "register_player", app |-> app,
                args |-> [device_id |-> device_id]]
        existing == {p \in players : p.app_id = app /\ p.device_id = device_id}
    IN  /\ workers[w].pc = "idle"
        /\ IF device_id = "none"
           THEN Return(w, Reply(req.op, app, req.args, 400,
                                [error |-> "device_id"]))
           ELSE IF existing # {}
           THEN \E existing_player \in existing :
                   Return(w, Reply(req.op, app, req.args, 200,
                                   [player |-> existing_player]))
           ELSE Goto(w, req, "register_player:insert_one", [none |-> 0])
        /\ UNCHANGED <<leaderboards, players, scores, nextLeaderboard,
                       nextScore, response, history>>

\* lines 86-102 of register_player: insert_one
register_player_insert(w) ==
    LET req == Request(w)
        player_item == [id |-> NewPlayerId, app_id |-> req.app,
                        device_id |-> req.args.device_id, user_id |-> "none"]
    IN  /\ workers[w].pc = "register_player:insert_one"
        /\ players' = players \cup {player_item}
        /\ Return(w, Reply(req.op, req.app, req.args, 201,
                           [player |-> player_item]))
        /\ UNCHANGED <<leaderboards, scores, nextLeaderboard, nextScore,
                       response, history>>

\* lines 399-434 of link_player_to_user: find_one on _id and app_id, and the
\* checks on the document found
link_player_to_user_find(w, app, player_id, user_id, device_id) ==
    LET req == [op |-> "link_player_to_user", app |-> app,
                args |-> [player_id |-> player_id, user_id |-> user_id,
                          device_id |-> device_id]]
        found == FindPlayer(player_id, app)
        player == CHOOSE p \in found : TRUE
    IN  /\ workers[w].pc = "idle"
        /\ IF device_id = "none"
           THEN Return(w, Reply(req.op, app, req.args, 400,
                                [error |-> "device_id"]))
           ELSE IF found = {}
           THEN Return(w, NotFound(req.op, app, req.args, "Player"))
           ELSE IF player.device_id # device_id
           THEN Return(w, Reply(req.op, app, req.args, 400,
                                [error |-> "device"]))
           ELSE IF player.user_id # "none" /\ player.user_id # user_id
           THEN Return(w, Reply(req.op, app, req.args, 409,
                                [error |-> "linked"]))
           ELSE IF player.user_id = user_id
           THEN Return(w, Reply(req.op, app, req.args, 200,
                                [player |-> {player}]))
           ELSE Goto(w, req, "link_player_to_user:update_one", [none |-> 0])
        /\ UNCHANGED <<leaderboards, players, scores, nextLeaderboard,
                       nextScore, response, history>>

\* lines 437-444 of link_player_to_user: update_one on _id
link_player_to_user_update(w) ==
    LET req == Request(w)
    IN  /\ workers[w].pc = "link_player_to_user:update_one"
        /\ players' = {IF p.id = req.args.player_id
                       THEN [p EXCEPT !.user_id = req.args.user_id]
                       ELSE p : p \in players}
        /\ Goto(w, req, "link_player_to_user:find_one", [none |-> 0])
        /\ UNCHANGED <<leaderboards, scores, nextLeaderboard, nextScore,
                       response, history>>

\* lines 446-451 of link_player_to_user: find_one on _id (the documents
\* found: none or one), and the reply
link_player_to_user_read(w) ==
    LET req == Request(w)
        updated_player == FindPlayerById(req.args.player_id)
    IN  /\ workers[w].pc = "link_player_to_user:find_one"
        /\ Return(w, Reply(req.op, req.app, req.args, 200,
                           [player |-> updated_player]))
        /\ UNCHANGED <<leaderboards, players, scores, nextLeaderboard,
                       nextScore, response, history>>

(* SpecLink: the registrations and links of two tenants, served by          *)
(* NumWorkers workers at the same time                                      *)

LinkDevices == {"d1", "none"}

LinkUsers == {"u1", "u2"}

InitLink ==
    /\ leaderboards = {}
    /\ players = {}
    /\ scores = {}
    /\ nextLeaderboard = 1
    /\ nextScore = 1
    /\ response = NoResponse
    /\ workers = [w \in 1..NumWorkers |-> [pc |-> "idle"]]
    /\ history = {[leaderboards |-> {}, scores |-> {}]}

NextLink ==
    \E w \in Workers :
        \/ /\ Cardinality(players) + InFlight("register_player") < MaxPlayers
           /\ \E app \in Apps, d \in LinkDevices :
                 register_player_find(w, app, d)
        \/ register_player_insert(w)
        \/ \E app \in Apps, p \in 1..MaxPlayers, u \in LinkUsers,
              d \in LinkDevices :
                 link_player_to_user_find(w, app, p, u, d)
        \/ link_player_to_user_update(w)
        \/ link_player_to_user_read(w)
        \/ worker_send_response(w)

SpecLink == InitLink /\ [][NextLink]_vars

----------------------------------------------------------------------------
(* Vocabulary of the claims *)

\* the leaderboard document with this id
Board(leaderboard_id) == CHOOSE l \in leaderboards : l.id = leaderboard_id

\* value a is strictly better than value b on a leaderboard of this sort order
StrictlyBetter(sort_order, a, b) ==
    IF sort_order = "desc" THEN a > b ELSE a < b

\* the player's best value on the leaderboard: the maximum (desc) or the
\* minimum (asc) of the player's values
BestValue(leaderboard_id, player_id) ==
    LET vals == {s.score : s \in ScoresOfPlayer(leaderboard_id, player_id)}
    IN  IF Board(leaderboard_id).sort_order = "desc"
        THEN CHOOSE v \in vals : \A u \in vals : u <= v
        ELSE CHOOSE v \in vals : \A u \in vals : v <= u

\* the players with a score on the leaderboard
PlayersOn(leaderboard_id) == {s.player_id : s \in ScoresOf(leaderboard_id)}

\* the request served last was a PlayerRank request that succeeded
RankReplied == response.op = "get_player_rank" /\ response.status = 200

\* the request served last was a TopScores request that succeeded
TopReplied == response.op = "get_top_scores" /\ response.status = 200

----------------------------------------------------------------------------
(* C1: for a player with at least one score on a leaderboard, PlayerRank   *)
(* succeeds with rank = 1 + the number of score records of the leaderboard *)
(* whose value is strictly better (greater on desc, lower on asc) than the *)
(* player's best value (maximum on desc, minimum on asc), and rank >= 1.   *)
C1_RankIsOnePlusStrictlyBetter ==
    response.op = "get_player_rank" =>
        LET L == response.args.leaderboard_id
            p == response.args.player_id
        IN  (FindLeaderboard(L, response.app) # {}
             /\ FindPlayer(p, response.app) # {}
             /\ ScoresOfPlayer(L, p) # {}) =>
                /\ response.status = 200
                /\ response.body.best_score.score = BestValue(L, p)
                /\ response.body.rank =
                      1 + Cardinality({s \in ScoresOf(L) :
                              StrictlyBetter(Board(L).sort_order, s.score,
                                             BestValue(L, p))})
                /\ response.body.rank >= 1

\* PlayerRank answered rank 3 on an ascending leaderboard for a player whose
\* best value is not the player's only value
C1_Witness ==
    /\ RankReplied
    /\ response.body.rank = 3
    /\ Board(response.args.leaderboard_id).sort_order = "asc"
    /\ Cardinality({s.score : s \in ScoresOfPlayer(response.args.leaderboard_id,
                                                   response.args.player_id)}) = 1
    /\ Cardinality(ScoresOf(response.args.leaderboard_id)) = 3

(* C8: two players of a leaderboard with equal best scores receive equal   *)
(* ranks, and a player whose best score is the next-worse distinct value   *)
(* receives rank = (number of records with a value better than or equal to *)
(* the tied value) + 1.  The rank of the player of the request served last *)
(* is the rank replied; the rank of every other player is the rank lines   *)
(* 284-307 compute for that player in the same state.                      *)
C8_TiesShareRank ==
    RankReplied =>
        LET L == response.args.leaderboard_id
            order == Board(L).sort_order
            dir == get_leaderboard_sort_order(L)
            tied == BestValue(L, response.args.player_id)
            values == {s.score : s \in ScoresOf(L)}
        IN  \A q \in PlayersOn(L) :
              \A best \in PlayerBestScores(ScoresOfPlayer(L, q), dir) :
                /\ BestValue(L, q) = tied =>
                      PlayerRank(ScoresOf(L), dir, best[1]) = response.body.rank
                /\ (/\ StrictlyBetter(order, tied, BestValue(L, q))
                    /\ ~ \E v \in values :
                           /\ StrictlyBetter(order, tied, v)
                           /\ StrictlyBetter(order, v, BestValue(L, q))) =>
                      PlayerRank(ScoresOf(L), dir, best[1]) =
                          Cardinality({s \in ScoresOf(L) :
                              ~StrictlyBetter(order, tied, s.score)}) + 1

\* PlayerRank answered for a player tied with another player, while a third
\* player holds the next-worse value
C8_Witness ==
    /\ RankReplied
    /\ LET L == response.args.leaderboard_id
           p == response.args.player_id
       IN  /\ \E q \in PlayersOn(L) \ {p} : BestValue(L, q) = BestValue(L, p)
           /\ \E q \in PlayersOn(L) \ {p} :
                 StrictlyBetter(Board(L).sort_order, BestValue(L, p),
                                BestValue(L, q))

(* C9: rank monotonicity: if the best score of one player is strictly      *)
(* better than that of another player of the same leaderboard (greater on  *)
(* desc, lower on asc), the rank PlayerRank returns for the first is       *)
(* strictly less than the rank it returns for the second.                  *)
C9_RankMonotonic ==
    RankReplied =>
        LET L == response.args.leaderboard_id
            order == Board(L).sort_order
            dir == get_leaderboard_sort_order(L)
            mine == BestValue(L, response.args.player_id)
        IN  \A q \in PlayersOn(L) :
              \A best \in PlayerBestScores(ScoresOfPlayer(L, q), dir) :
                /\ StrictlyBetter(order, mine, BestValue(L, q)) =>
                      response.body.rank < PlayerRank(ScoresOf(L), dir, best[1])
                /\ StrictlyBetter(order, BestValue(L, q), mine) =>
                      PlayerRank(ScoresOf(L), dir, best[1]) < response.body.rank

\* PlayerRank answered on an ascending leaderboard for a player who is
\* strictly better than a second player and strictly worse than a third
C9_Witness ==
    /\ RankReplied
    /\ LET L == response.args.leaderboard_id
           p == response.args.player_id
       IN  /\ Board(L).sort_order = "asc"
           /\ \E q \in PlayersOn(L) : BestValue(L, q) < BestValue(L, p)
           /\ \E q \in PlayersOn(L) : BestValue(L, q) > BestValue(L, p)

(* C10: the nearby window PlayerRank returns has between 1 and             *)
(* 2*nearby + 1 entries, nearby being the requested value after clamping,  *)
(* and its rank annotations are strictly increasing.                       *)
C10_WindowSize ==
    RankReplied =>
        LET nearby == Min(response.args.nearby, MaxNearby)
            window == response.body.nearby
        IN  /\ 1 <= Len(window)
            /\ Len(window) <= 2 * nearby + 1
            /\ \A i \in 1..(Len(window) - 1) :
                  window[i].rank < window[i + 1].rank

\* the leaderboard is descending and holds exactly the four scores of the
\* scenario of section 8, submitted in its order
ScenarioState(L) ==
    /\ FindLeaderboard(L, "A") # {}
    /\ Board(L).sort_order = "desc"
    /\ {<<s.id, s.player_id, s.score>> : s \in ScoresOf(L)} =
          {<<1, "p1", 100>>, <<2, "p2", 90>>, <<3, "p3", 100>>, <<4, "p4", 80>>}

(* C2: TopScores annotates every returned record with a tie-aware rank:    *)
(* records with equal value get equal rank and the rank of the next        *)
(* distinct value skips the tied records (rank = 1 + number of strictly    *)
(* better records).  On the descending leaderboard of the scenario,        *)
(* TopScores(limit=4) returns values [100,100,90,80] with ranks [1,1,3,4]  *)
(* in player order [p1,p3,p2,p4].                                          *)
C2_TopScoresTieAware ==
    TopReplied =>
        LET L == response.args.leaderboard_id
            list == response.body.scores
        IN  /\ \A i \in 1..Len(list) :
                  list[i].rank =
                      1 + Cardinality({s \in ScoresOf(L) :
                              StrictlyBetter(Board(L).sort_order, s.score,
                                             list[i].score.score)})
            /\ (ScenarioState(L) /\ response.args.limit = 4) =>
                  /\ [i \in 1..Len(list) |-> list[i].score.score] =
                        <<100, 100, 90, 80>>
                  /\ [i \in 1..Len(list) |-> list[i].rank] = <<1, 1, 3, 4>>
                  /\ [i \in 1..Len(list) |-> list[i].score.player_id] =
                        <<"p1", "p3", "p2", "p4">>

\* the score documents a reply holds
ScoresIn(r) ==
    IF r.status # 200 THEN {}
    ELSE IF r.op = "get_top_scores"
    THEN {r.body.scores[i].score : i \in 1..Len(r.body.scores)}
    ELSE IF r.op = "get_player_rank"
    THEN {r.body.best_score}
            \cup {r.body.nearby[i].score : i \in 1..Len(r.body.nearby)}
    ELSE IF r.op = "get_player_scores"
    THEN {r.body.scores[i].score : i \in 1..Len(r.body.scores)}
    ELSE {}

\* the leaderboard documents a reply holds
LeaderboardsIn(r) ==
    IF r.status # 200 THEN {}
    ELSE IF r.op = "get_top_scores" \/ r.op = "get_leaderboard"
    THEN {r.body.leaderboard}
    ELSE IF r.op = "get_leaderboards"
    THEN r.body.leaderboards
    ELSE IF r.op = "get_player_scores"
    THEN UNION {r.body.scores[i].leaderboard : i \in 1..Len(r.body.scores)}
    ELSE {}

(* C3: tenant isolation: no reply to a query of an app (TopScores,         *)
(* PlayerRank, PlayerHistory, leaderboard list and get) holds a score      *)
(* submitted to a leaderboard of another app, nor a leaderboard of another *)
(* app, also when both apps own a leaderboard of the same name.            *)
C3_TenantIsolation ==
    /\ \A s \in ScoresIn(response) :
          \E l \in leaderboards :
              l.id = s.leaderboard_id /\ l.app_id = response.app
    /\ \A l \in LeaderboardsIn(response) : l.app_id = response.app

\* app B was answered the top scores of its leaderboard while app A owns a
\* leaderboard of the same name that holds a score
C3_Witness ==
    /\ TopReplied
    /\ response.app = "B"
    /\ Len(response.body.scores) > 0
    /\ \E l \in leaderboards :
          /\ l.app_id = "A"
          /\ l.name = response.body.leaderboard.name
          /\ ScoresOf(l.id) # {}

\* the request of reply r names a leaderboard or a player that the caller's
\* app does not own in the current state
NamesForeign(r) ==
    /\ r.op \in {"submit_score", "get_top_scores", "get_player_rank",
                 "get_player_scores", "get_leaderboard", "delete_leaderboard"}
    /\ \/ /\ r.op # "get_player_scores"
          /\ \A l \in leaderboards :
                l.id = r.args.leaderboard_id => l.app_id # r.app
       \/ /\ r.op \in {"submit_score", "get_player_rank", "get_player_scores"}
          /\ \A p \in players : p.id = r.args.player_id => p.app_id # r.app

(* C4: a request (SubmitScore, TopScores, PlayerRank, PlayerHistory,       *)
(* leaderboard get, leaderboard delete) that names a leaderboard or a      *)
(* player the caller's app does not own is answered NotFound, with no data *)
(* of the entity, and leaves leaderboards, players and scores unchanged.   *)
C4_ForeignIsNotFound ==
    [][NamesForeign(response') =>
          /\ response'.status = 404
          /\ response'.body \in {[error |-> "Leaderboard"], [error |-> "Player"]}
          /\ UNCHANGED <<leaderboards, players, scores>>]_vars

\* app B submitted a score to a leaderboard that exists and belongs to app A,
\* for B's own player, and was answered NotFound
C4_Witness ==
    /\ response.op = "submit_score"
    /\ response.app = "B"
    /\ response.status = 404
    /\ \E p \in players : p.id = response.args.player_id /\ p.app_id = "B"
    /\ \E l \in leaderboards :
          l.id = response.args.leaderboard_id /\ l.app_id = "A"
    /\ \E s \in scores : s.leaderboard_id = response.args.leaderboard_id

\* the workers whose handler has returned op with status 200
Returned(op) ==
    {w \in Workers :
        /\ workers[w].pc = "done"
        /\ workers[w].reply.op = op
        /\ workers[w].reply.status = 200}

\* the leaderboard of every score document that was ever stored
EverStored ==
    UNION {{<<s.id, s.leaderboard_id>> : s \in h.scores} : h \in history}

(* C5: cascade integrity: once leaderboard L is deleted, the number of     *)
(* stored scores with leaderboard_id = L is 0 in every state, and no query *)
(* that arrives later returns a score that was submitted to L, also when   *)
(* SubmitScore requests for L run at the same time as the delete.          *)
C5_CascadeIntegrity ==
    /\ \A id \in Deleted : Cardinality(ScoresOf(id)) = 0
    /\ \A w \in Returned("get_user_scores") :
          LET list == workers[w].reply.body.scores
          IN  \A i \in 1..Len(list) : \A id \in workers[w].began.deleted :
                  <<list[i].score.id, id>> \notin EverStored

(* C6: the deletion of a leaderboard is atomic for every concurrent        *)
(* request: TopScores never returns, for a leaderboard L that still        *)
(* exists, a list shorter than the scores stored for L when the request    *)
(* arrived allow, and there is no state in which L is gone while scores of *)
(* L are stored.                                                           *)
C6_DeleteIsAtomic ==
    /\ \A w \in Returned("get_top_scores") :
          LET r == workers[w].reply
              stored == Cardinality({s \in workers[w].began.scores :
                            s.leaderboard_id = r.args.leaderboard_id})
          IN  \/ Len(r.body.scores) >=
                    Len(CursorLimit([i \in 1..stored |-> i],
                                    Min(r.args.limit, MaxLimit)))
              \/ \A l \in leaderboards : l.id # r.args.leaderboard_id
    /\ \A s \in scores : \E l \in leaderboards : l.id = s.leaderboard_id

\* reply r is one that its handler builds when all its reads are made on the
\* collections h
BuiltOn(r, h) ==
    \E l \in h.leaderboards :
        /\ l.id = r.args.leaderboard_id
        /\ l.app_id = r.app
        /\ LET docs == {s \in h.scores : s.leaderboard_id = l.id}
               dir == IF l.sort_order = "desc" THEN -1 ELSE 1
           IN  IF r.op = "get_top_scores"
               THEN r \in TopScoresReplies(r.app, r.args, l,
                              Min(r.args.limit, MaxLimit), dir, docs)
               ELSE r \in PlayerRankReplies(r.app, r.args, r.body.player,
                              Min(r.args.nearby, MaxNearby), dir, docs)

(* C7: read isolation: every TopScores and PlayerRank response is computed *)
(* against one state of the leaderboard that some prefix of the writes     *)
(* produced: best_score, rank, total_players and the nearby window of a    *)
(* PlayerRank response, and the list and the total count of a TopScores    *)
(* response, are those of one content the collections had, also when       *)
(* SubmitScore and delete requests interleave with the read.               *)
C7_ReadIsolation ==
    \A w \in Returned("get_top_scores") \cup Returned("get_player_rank") :
        \E h \in history : BuiltOn(workers[w].reply, h)

\* the records at the 0-based positions lo .. hi of list (none when hi < lo)
Positions(list, lo, hi) == [i \in 1..(hi - lo + 1) |-> list[lo + i]]

(* C11: the nearby window of PlayerRank is exactly the records at the      *)
(* positions max(0, pos-nearby) .. min(N-1, pos+nearby) of the full sorted *)
(* list of the leaderboard, pos being the position of the first record of  *)
(* the queried player.  On the descending leaderboard of the scenario,     *)
(* PlayerRank(p4, nearby=1) returns a window with ranks [3,4] holding p2   *)
(* and p4, and total_players = 4.                                          *)
C11_WindowIsClampedSlice ==
    RankReplied =>
        LET L == response.args.leaderboard_id
            nearby == response.args.nearby
            window == response.body.nearby
            dir == IF Board(L).sort_order = "desc" THEN -1 ELSE 1
            N == Cardinality(ScoresOf(L))
        IN  /\ \E sorted \in CursorSort(ScoresOf(L), "score", dir) :
                  LET pos == PlayerPosition(sorted, response.args.player_id)
                  IN  [i \in 1..Len(window) |-> window[i].score] =
                          Positions(sorted, Max(0, pos - nearby),
                                    Min(N - 1, pos + nearby))
            /\ (ScenarioState(L) /\ response.args.player_id = "p4"
                    /\ nearby = 1) =>
                  /\ [i \in 1..Len(window) |-> window[i].rank] = <<3, 4>>
                  /\ [i \in 1..Len(window) |-> window[i].score.player_id] =
                        <<"p2", "p4">>
                  /\ response.body.total_players = 4

(* C12: SubmitScore is append-only: every SubmitScore whose leaderboard    *)
(* and player both belong to the caller's app succeeds and adds exactly    *)
(* one new score record with a fresh id, whatever scores the player        *)
(* already has, and leaves every record stored before present and          *)
(* unchanged.                                                              *)
C12_SubmitIsAppendOnly ==
    [][(/\ response'.op = "submit_score"
        /\ \E l \in leaderboards : /\ l.id = response'.args.leaderboard_id
                                   /\ l.app_id = response'.app
        /\ \E p \in players : /\ p.id = response'.args.player_id
                              /\ p.app_id = response'.app)
       => /\ response'.status = 201
          /\ \E new \in scores' \ scores :
                /\ scores' = scores \cup {new}
                /\ new.id \notin {s.id : s \in scores}
                /\ new = response'.body.score
                /\ new.leaderboard_id = response'.args.leaderboard_id
                /\ new.player_id = response'.args.player_id
                /\ new.score = response'.args.score]_vars

\* a score was submitted for a player who holds an older record of the same
\* value and an older record of another value on the same leaderboard
C12_Witness ==
    /\ response.op = "submit_score"
    /\ response.status = 201
    /\ \E s, u \in scores \ {response.body.score} :
          /\ s.leaderboard_id = response.body.score.leaderboard_id
          /\ u.leaderboard_id = response.body.score.leaderboard_id
          /\ s.player_id = response.body.score.player_id
          /\ u.player_id = response.body.score.player_id
          /\ s.score = response.body.score.score
          /\ u.score # response.body.score.score

(* C13: for every requested limit (0, negative and above 100 included)     *)
(* TopScores returns at most 100 records, and for every requested nearby   *)
(* value PlayerRank uses a window half-width of at most 20 (at most 41     *)
(* records); an out-of-range value is clamped and produces neither an      *)
(* error nor an unbounded result.                                          *)
C13_LimitsAreClamped ==
    /\ response.op = "get_top_scores" /\ FindLeaderboard(1, "A") # {} =>
          /\ response.status = 200
          /\ Len(response.body.scores) <= MaxLimit
    /\ response.op = "get_player_rank" /\ ScoresOfPlayer(1, "p1") # {} =>
          /\ response.status = 200
          /\ Len(response.body.nearby) <= 2 * MaxNearby + 1

(* C14: TopScores returns the first min(limit, number of records) records  *)
(* of the leaderboard in sort order (non-increasing value on a descending  *)
(* leaderboard, non-decreasing on an ascending one), and the rank of the   *)
(* i-th returned record (1-based) is i.                                    *)
C14_TopScoresIsPrefix ==
    TopReplied =>
        LET L == response.args.leaderboard_id
            list == response.body.scores
            dir == IF Board(L).sort_order = "desc" THEN -1 ELSE 1
            n == Min(response.args.limit, Cardinality(ScoresOf(L)))
        IN  /\ \E sorted \in CursorSort(ScoresOf(L), "score", dir) :
                  [i \in 1..Len(list) |-> list[i].score] = SubSeq(sorted, 1, n)
            /\ \A i \in 1..Len(list) : list[i].rank = i

(* C15: only the best score of each player takes part in the ordering used *)
(* for the rank and for the nearby window: a player with several scores    *)
(* occupies one position, so no player appears more than once in a window  *)
(* and the rank of a player is 1 + the number of players whose best score  *)
(* is strictly better (the other records of a player push nobody down).    *)
C15_OnlyBestScoreParticipates ==
    RankReplied =>
        LET L == response.args.leaderboard_id
            window == response.body.nearby
            mine == BestValue(L, response.args.player_id)
        IN  /\ \A i, j \in 1..Len(window) :
                  i # j => window[i].score.player_id # window[j].score.player_id
            /\ response.body.rank =
                  1 + Cardinality({q \in PlayersOn(L) :
                          StrictlyBetter(Board(L).sort_order,
                                         BestValue(L, q), mine)})

(* C16, as stated: the total count returned by TopScores equals the number *)
(* of distinct score values stored on the leaderboard.                     *)
C16_TotalIsDistinctValues ==
    TopReplied =>
        response.body.total_scores =
            Cardinality({s.score : s \in ScoresOf(response.args.leaderboard_id)})

(* C16, amended: the total count returned by TopScores equals the number   *)
(* of score records stored on the leaderboard, records of equal value and  *)
(* records beyond the limit included.                                      *)
C16_TotalIsRecordCount ==
    TopReplied =>
        response.body.total_scores =
            Cardinality(ScoresOf(response.args.leaderboard_id))

\* TopScores was answered on a leaderboard that holds more records than the
\* limit returns and two records of one value
C16_Witness ==
    /\ TopReplied
    /\ Len(response.body.scores) <
          Cardinality(ScoresOf(response.args.leaderboard_id))
    /\ \E s, u \in ScoresOf(response.args.leaderboard_id) :
          s # u /\ s.score = u.score

(* C17: the total_players value returned by PlayerRank equals the number   *)
(* of distinct player ids that have at least one stored score on the       *)
(* leaderboard, after any sequence of submits.                             *)
C17_TotalPlayers ==
    RankReplied =>
        response.body.total_players =
            Cardinality({p \in PlayerIds :
                \E s \in scores :
                    /\ s.leaderboard_id = response.args.leaderboard_id
                    /\ s.player_id = p})

\* PlayerRank was answered on a leaderboard where two players have scores and
\* one of them has two
C17_Witness ==
    /\ RankReplied
    /\ response.body.total_players = 2
    /\ Cardinality(ScoresOf(response.args.leaderboard_id)) = 3

(* C18: PlayerHistory for a player owned by the caller's app returns       *)
(* exactly the stored scores of that player on leaderboards of that app    *)
(* (every one once, and no others), ordered newest first by creation time, *)
(* each paired with the leaderboard record it belongs to.                  *)
C18_PlayerHistory ==
    (/\ response.op = "get_player_scores"
     /\ \E p \in players : /\ p.id = response.args.player_id
                           /\ p.app_id = response.app)
    => /\ response.status = 200
       /\ LET list == response.body.scores
              stored == {s \in scores :
                  /\ s.player_id = response.args.player_id
                  /\ \E l \in leaderboards : /\ l.id = s.leaderboard_id
                                             /\ l.app_id = response.app}
          IN  /\ {list[i].score : i \in 1..Len(list)} = stored
              /\ Len(list) = Cardinality(stored)
              /\ \A i, j \in 1..Len(list) :
                    i < j => list[i].score.created_at >= list[j].score.created_at
              /\ \A i \in 1..Len(list) :
                    /\ list[i].leaderboard # {}
                    /\ list[i].leaderboard =
                          {l \in leaderboards : l.id = list[i].score.leaderboard_id}

\* the history of a player was answered with scores on two leaderboards
C18_Witness ==
    /\ response.op = "get_player_scores"
    /\ response.status = 200
    /\ Len(response.body.scores) >= 2
    /\ \E i, j \in 1..Len(response.body.scores) :
          response.body.scores[i].score.leaderboard_id #
              response.body.scores[j].score.leaderboard_id

(* C19: when the queried player has no score on the leaderboard (also when *)
(* the leaderboard has no record at all), PlayerRank returns the NotFound  *)
(* outcome 'player has no scores on this leaderboard', not a system error, *)
(* and changes no state.                                                   *)
C19_NoScoreIsNotFound ==
    [][(/\ response'.op = "get_player_rank"
        /\ \E l \in leaderboards : /\ l.id = response'.args.leaderboard_id
                                   /\ l.app_id = response'.app
        /\ \E p \in players : /\ p.id = response'.args.player_id
                              /\ p.app_id = response'.app
        /\ \A s \in scores :
              ~(/\ s.leaderboard_id = response'.args.leaderboard_id
                /\ s.player_id = response'.args.player_id))
       => /\ response'.status = 404
          /\ response'.body = [error |-> "Score"]
          /\ UNCHANGED <<leaderboards, players, scores>>]_vars

\* PlayerRank answered NotFound for a player without scores on a leaderboard
\* that holds scores of other players
C19_Witness ==
    /\ response.op = "get_player_rank"
    /\ response.status = 404
    /\ response.body = [error |-> "Score"]
    /\ ScoresOf(response.args.leaderboard_id) # {}

\* PlayerRank answered NotFound on a leaderboard without records
C19_WitnessEmpty ==
    /\ response.op = "get_player_rank"
    /\ response.status = 404
    /\ response.body = [error |-> "Score"]
    /\ ScoresOf(response.args.leaderboard_id) = {}

(* C20: in every reachable state, those reached by concurrent create       *)
(* requests included, no two leaderboards of one app have the same name    *)
(* (leaderboards of different apps may share a name).                      *)
C20_UniqueNamePerApp ==
    \A l1, l2 \in leaderboards :
        (l1.app_id = l2.app_id /\ l1.name = l2.name) => l1 = l2

----------------------------------------------------------------------------
(* C21: a player's user_id is set at most once.  Once the user_id of a      *)
(* player is not None no step changes it, and a link request that returns   *)
(* success returns the player linked to the user of the request: a request  *)
(* for another user is answered 409, also when two link requests for        *)
(* different users are served at the same time.                             *)

\* the link replies that are waiting to be sent
LinkReplies ==
    {workers[w].reply : w \in {x \in Workers : workers[x].pc = "done"
                                  /\ workers[x].reply.op = "link_player_to_user"}}

C21_LinkIsExclusive ==
    [][ /\ \A p \in players : p.user_id # "none" =>
              \E q \in players' : q.id = p.id /\ q.user_id = p.user_id
        /\ \A r \in LinkReplies' : r.status = 200 =>
              \A p \in r.body.player : p.user_id = r.args.user_id ]_vars

----------------------------------------------------------------------------
(* C22: registration is idempotent on (app_id, device_id).  In every state  *)
(* at most one player is stored per app and device, and a registration that *)
(* finds the player of its app and device returns that stored player and    *)
(* leaves the players collection as it is.                                  *)

\* the workers that return from a registration in this step
RegisterReturns ==
    {w \in Workers : /\ workers[w].pc \in {"idle", "register_player:insert_one"}
                     /\ workers'[w].pc = "done"
                     /\ workers'[w].reply.op = "register_player"}

C22_RegisterIsIdempotent ==
    [][ /\ \A p, q \in players' :
              p.app_id = q.app_id /\ p.device_id = q.device_id => p = q
        /\ \A w \in RegisterReturns : workers'[w].reply.status = 200 =>
              /\ players' = players
              /\ workers'[w].reply.body.player \in players
              /\ workers'[w].reply.body.player.app_id = workers'[w].reply.app
              /\ workers'[w].reply.body.player.device_id =
                    workers'[w].reply.args.device_id ]_vars

----------------------------------------------------------------------------
(* C23: referential integrity of the scores.  In every state the            *)
(* leaderboard_id of every stored score is the id of a stored leaderboard,  *)
(* its player_id is the id of a stored player, and that leaderboard and     *)
(* that player belong to the same app.                                      *)
C23_ScoresResolve ==
    \A s \in scores :
        /\ \E l \in leaderboards : l.id = s.leaderboard_id
        /\ \E p \in players : p.id = s.player_id
        /\ \A l \in leaderboards, p \in players :
              l.id = s.leaderboard_id /\ p.id = s.player_id =>
                 l.app_id = p.app_id

----------------------------------------------------------------------------
(* C24: operations on different leaderboards are independent.  A            *)
(* SubmitScore to leaderboard L1, or a delete of L1, leaves every other     *)
(* leaderboard L2 and the score records of L2 as they are, so TopScores and *)
(* PlayerRank on L2 can return after it exactly what they could return      *)
(* before it.                                                               *)

\* what GET /leaderboards/<id>/top can return to the owner of leaderboard l
TopScoresOn(l, limit) ==
    IF FindLeaderboard(l.id, l.app_id) = {}
    THEN {NotFound("get_top_scores", l.app_id,
                   [leaderboard_id |-> l.id, limit |-> limit], "Leaderboard")}
    ELSE TopScoresReplies(l.app_id, [leaderboard_id |-> l.id, limit |-> limit],
                          CHOOSE x \in FindLeaderboard(l.id, l.app_id) : TRUE,
                          Min(limit, MaxLimit),
                          get_leaderboard_sort_order(l.id), ScoresOf(l.id))

\* what GET /leaderboards/<id>/rank/<player> can return to the owner of
\* leaderboard l for its player p
PlayerRankOn(l, p, nearby) ==
    IF FindLeaderboard(l.id, l.app_id) = {}
    THEN {NotFound("get_player_rank", l.app_id,
                   [leaderboard_id |-> l.id, player_id |-> p.id,
                    nearby |-> nearby], "Leaderboard")}
    ELSE PlayerRankReplies(l.app_id,
                           [leaderboard_id |-> l.id, player_id |-> p.id,
                            nearby |-> nearby],
                           p, Min(nearby, MaxNearby),
                           get_leaderboard_sort_order(l.id), ScoresOf(l.id))

C24_LeaderboardsIndependent ==
    [][(/\ Idle
        /\ response'.op \in {"submit_score", "delete_leaderboard"})
       => \A l \in leaderboards : l.id # response'.args.leaderboard_id =>
             /\ l \in leaderboards'
             /\ ScoresOf(l.id)' = ScoresOf(l.id)
             /\ TopScoresOn(l, MaxLimit)' = TopScoresOn(l, MaxLimit)
             /\ \A p \in {q \in players : q.app_id = l.app_id} :
                   PlayerRankOn(l, p, 1)' = PlayerRankOn(l, p, 1)]_vars

\* a leaderboard was deleted together with a score it held, while another
\* leaderboard of the same app holds a score
C24_Witness ==
    /\ response.op = "delete_leaderboard"
    /\ response.status = 200
    /\ Cardinality(scores) < nextScore - 1
    /\ \E l \in leaderboards : /\ l.app_id = response.app
                                /\ ScoresOf(l.id) # {}

\* a score was submitted to one leaderboard while another leaderboard of the
\* same app holds a score
C24_WitnessSubmit ==
    /\ response.op = "submit_score"
    /\ response.status = 201
    /\ \E l \in leaderboards : /\ l.app_id = response.app
                                /\ l.id # response.args.leaderboard_id
                                /\ ScoresOf(l.id) # {}

----------------------------------------------------------------------------
(* C25: a request without a required field, or with an unsupported sort     *)
(* order, is answered 400 and changes nothing.  POST /scores without        *)
(* leaderboard_id, player_id or score stores no score; POST /leaderboards   *)
(* without name, or with a sort_order other than asc and desc, creates no   *)
(* leaderboard; and a leaderboard created without sort_order is descending. *)
C25_InvalidInputChangesNothing ==
    [][ /\ \A data \in InputScoreBodies :
              (submit_score_body("A", data) /\ ~(ScoreKeys \subseteq DOMAIN data))
                 => response'.status = 400 /\ UNCHANGED db
        /\ \A data \in InputLeaderboardBodies :
              create_leaderboard_body("A", data) =>
                 /\ ( \/ "name" \notin DOMAIN data
                      \/ /\ "sort_order" \in DOMAIN data
                         /\ data.sort_order \notin {"asc", "desc"} )
                       => response'.status = 400 /\ UNCHANGED db
                 /\ ("sort_order" \notin DOMAIN data /\ response'.status = 201)
                       => \E l \in leaderboards' \ leaderboards :
                             l.sort_order = "desc" ]_vars

\* a request without score was answered 400 while a leaderboard and a score
\* are stored
C25_Witness ==
    /\ response.op = "submit_score"
    /\ response.status = 400
    /\ DOMAIN response.args = {"leaderboard_id", "player_id"}
    /\ leaderboards # {}
    /\ scores # {}

----------------------------------------------------------------------------
(* C26: every stored score has an integer value.  A POST /scores whose      *)
(* score is present but is not a JSON integer (a string, null, an object)   *)
(* is rejected (it is not answered 201) and stores nothing, so the value of *)
(* every stored score is an integer.                                        *)
C26_ScoreValuesAreIntegers ==
    /\ \A s \in scores : s.score.type = "integer"
    /\ (response.op = "submit_score" /\ response.args.score.type # "integer")
          => response.status # 201

----------------------------------------------------------------------------
(* C27: within one PlayerRank response the nearby window holds an entry of  *)
(* the queried player whose score value is best_score, and the rank written *)
(* on that entry is the rank of the response, also when other records tie   *)
(* with the best score of the player.                                       *)
C27_WindowRankIsRank ==
    RankReplied =>
        LET window == response.body.nearby
            own == {i \in 1..Len(window) :
                       /\ window[i].score.player_id = response.args.player_id
                       /\ window[i].score.score = response.body.best_score.score}
        IN  \E i \in own : window[i].rank = response.body.rank

----------------------------------------------------------------------------
(* C28: the rank PlayerRank returns never exceeds the total_players of the  *)
(* same response, whatever the leaderboard holds, also when some players    *)
(* have several scores on it.                                               *)
C28_RankWithinTotalPlayers ==
    RankReplied => response.body.rank <= response.body.total_players

----------------------------------------------------------------------------
(* C29: under every interleaving of a PlayerRank request with SubmitScore   *)
(* and leaderboard-delete requests on the same leaderboard, PlayerRank      *)
(* returns a successful result or NotFound; it never fails with an          *)
(* unhandled error (the record found by the best-score read missing from    *)
(* the later read of the full list, player_position left None).             *)
C29_PlayerRankNeverCrashes ==
    \A w \in Workers :
        (workers[w].pc = "done" /\ workers[w].reply.op = "get_player_rank")
           => workers[w].reply.status \in {200, 404}

----------------------------------------------------------------------------
(* C30: the games query of a user is a read-only fan-out consistent with    *)
(* PlayerRank.  It changes no collection; it reports one game for every     *)
(* player linked to the user; and for every leaderboard of the app of such  *)
(* a player, the game holds an entry exactly if the player has a score on   *)
(* the leaderboard, and the score of the entry is the best_score value      *)
(* PlayerRank returns for that player and leaderboard in the same state.    *)
C30_UserGamesMatchPlayerRank ==
    [][(Idle /\ response'.op = "get_user_games" /\ response'.status = 200)
       => /\ UNCHANGED db
          /\ {g.player : g \in response'.body.games} =
                {p.id : p \in {q \in players :
                                  q.user_id = response'.args.user_id}}
          /\ \A g \in response'.body.games :
                LET p == CHOOSE q \in players : q.id = g.player
                    lbs == {lb \in leaderboards : lb.app_id = p.app_id}
                IN  /\ \A e \in g.best_scores :
                          \E lb \in lbs : lb.id = e.leaderboard.id
                    /\ \A lb \in lbs :
                          LET entries == {e \in g.best_scores :
                                             e.leaderboard.id = lb.id}
                          IN  IF ScoresOfPlayer(lb.id, p.id) = {}
                              THEN entries = {}
                              ELSE /\ Cardinality(entries) = 1
                                   /\ \A e \in entries :
                                      \A r \in PlayerRankOn(lb, p, 0) :
                                         /\ r.status = 200
                                         /\ r.body.best_score.score = e.score]_vars

\* the games of a user with a player in each app were returned: on an
\* ascending leaderboard the player holds a score worse than the one reported,
\* and the game of the other app reports a score as well
C30_Witness ==
    /\ response.op = "get_user_games"
    /\ response.status = 200
    /\ \E g, h \in response.body.games :
          /\ g.player # h.player
          /\ h.best_scores # {}
          /\ \E e \in g.best_scores :
                /\ Board(e.leaderboard.id).sort_order = "asc"
                /\ \E s \in ScoresOfPlayer(e.leaderboard.id, g.player) :
                      s.score > e.score

====
